---- MODULE Spec2Model ----
(***************************************************************************)
(* Voice session proxy of samueldbrewer/Parts.                             *)
(*                                                                         *)
(* VoiceWebSocketHandler (websocket/voice.websocket.ts, kept in            *)
(* src/unnamed/part_002 from line 281) binds one client WebSocket to one   *)
(* OpenAIRealtimeService (src/src/services/openai-realtime.service.ts).    *)
(* Node runs every callback to its first await without interleaving, so    *)
(* each action below is one callback (or one resumption after an await).   *)
(*                                                                         *)
(* Time is counted in minutes: SESSION_TIMEOUT_MS = 10 * 60 * 1000 ms is   *)
(* SESSION_TIMEOUT_MIN = 10.                                               *)
(*                                                                         *)
(* The account service (src/src/services/auth.service.ts) and the          *)
(* inventory update of PartService (src/unnamed/part_017) are modelled     *)
(* next to it, each on variables of its own.                               *)
(***************************************************************************)
EXTENDS Integers, Sequences, FiniteSets, TLC

\* ---------------------------------------------------------------- bounds
MaxTime == 20             \* last minute of the simulated clock
MaxClientMsgs == 2        \* client messages per connection
MaxUpstreamMsgs == 2      \* upstream messages per connection
MaxCalls == 1             \* tool-call requests per connection
MaxRegisters == 2         \* calls of AuthService.register
MaxLogins == 1            \* logins
MaxRefreshes == 2         \* calls of AuthService.refreshToken
MaxSeconds == 1           \* last second of the clock jwt.sign reads
MaxInventoryCalls == 2    \* calls of PartService.updateInventory

\* ------------------------------------------------------ program constants
SESSION_TIMEOUT_MIN == 10

\* the connections modelled (the handler draws a fresh uuid for each)
SessionIds == {1, 2}
CallIds == 1..MaxCalls

\* the message.type values the client message handler switches on, plus a
\* type it does not know and a payload JSON.parse rejects
ClientMsgTypes ==
    {"input_audio_buffer.append", "input_audio_buffer.commit",
     "input_audio_buffer.clear", "conversation.item.create",
     "response.create", "response.cancel", "conversation.item.truncate",
     "ping", "unknown", "malformed"}

\* usage objects an upstream response.done can carry: <<input_tokens,
\* output_tokens, input_token_details.audio_tokens,
\* output_token_details.audio_tokens>>, or <<>> when response.usage is absent
UsageReports == {<<>>, <<10, 20, 4, 8>>, <<0, 5, 0, 0>>}

\* tools FunctionToolsService.executeFunction has a case for / has none for
ToolNames == {"get_weather", "foo"}
RegisteredTools == {"get_weather"}

\* the register calls of a run; a user's id is the call that created it
RegCalls == 1..MaxRegisters
Emails == {"ann@x.org", "bob@x.org"}
Usernames == {"ann", "bob"}

\* calls of PartService.updateInventory on the one part of the model, the
\* quantity the part starts with, and the `type` and `quantity` of an
\* InventoryUpdateInput
InventoryCalls == 1..MaxInventoryCalls
InitialQuantity == 2
InventoryTypes == {"ADD", "REMOVE"}
InventoryQuantities == {1, -1, 3}

\* calls of AuthService.refreshToken, and the refresh tokens a caller can
\* present (0 is no token)
RefreshCalls == 1..MaxRefreshes
TokenRange == 1..((MaxSeconds + 1) * MaxRegisters)

VARIABLES
    crashed,           \* process.exit(1) ran (uncaughtException handler)
    now,               \* simulated clock, minutes
    authData,          \* what verifyWebSocketToken returned for the request
    hs,                \* how handleUpgrade answered the request
    hpc,               \* position of the 'connection' handler
    sessions,          \* keys of VoiceWebSocketHandler.sessions
    sessionTimeouts,   \* VoiceWebSocketHandler.sessionTimeouts
    lastActivity,      \* ClientSession.lastActivity
    cws,               \* readyState of the client socket
    closeReason,       \* reason the server passed to clientWs.close
    wsRef,             \* OpenAIRealtimeService.ws !== null
    uws,               \* readyState of the upstream socket
    status,            \* RealtimeSession.status ("none": session is null)
    heartbeat,         \* OpenAIRealtimeService.heartbeatInterval !== null
    inputTokens,       \* RealtimeSession.inputTokens
    outputTokens,      \* RealtimeSession.outputTokens
    pendingCleanups,   \* cleanupSession invocations awaiting finalize
    finalizeCalls,     \* finalizeVoiceSession invocations so far
    toClient,          \* events the server sent on the client socket
    sentUp,            \* messages the service sent on the upstream socket
    callState,         \* progress of handleFunctionCall per call_id
    cmsgs,             \* client messages so far
    umsgs,             \* upstream messages so far
    earlyAudio,        \* audio appends the client sent before 'open'
    lastEvent,         \* time of the last message of either leg
    usageLog,          \* the usage objects upstream reported so far
    callInfo,          \* name and function_call_output payload per call_id
    disconnectedEmits, \* 'disconnected' notifications the service emitted
    upLog,             \* message types handleMessage received so far
    clientLog,         \* message types the client 'message' listener received
    voiceRecord,       \* the VoiceSession row of the session id
    repoFailures,      \* repository calls that failed and were logged
    createdAt,         \* ClientSession.createdAt
    pendingUpdates,    \* updateVoiceSessionMetrics calls in flight
    users,             \* rows of the User table, by id
    registers,         \* AuthService.register calls and where they stand
    signed,            \* tokens jwt.sign has produced so far
    clock,             \* Date.now() in seconds, as jwt.sign reads it for iat
    refreshes,         \* AuthService.refreshToken calls and where they stand
    stale,             \* refresh tokens revoked or superseded so far
    quantity,          \* Part.quantity of the part
    inventory,         \* PartService.updateInventory calls and where they stand
    inventoryLogs      \* rows of the InventoryLog table, in creation order

\* the state of the voice bridge, and of the account service
voiceVars == <<crashed, now, authData, hs, hpc, sessions, sessionTimeouts,
              lastActivity, cws, closeReason, wsRef, uws, status, heartbeat,
              inputTokens, outputTokens, pendingCleanups, finalizeCalls,
              toClient, sentUp, callState, cmsgs, umsgs, earlyAudio,
              lastEvent, usageLog, callInfo, disconnectedEmits, upLog,
              clientLog, voiceRecord, repoFailures, createdAt,
              pendingUpdates>>

authVars == <<users, registers, signed, clock, refreshes, stale>>

partVars == <<quantity, inventory, inventoryLogs>>

vars == <<voiceVars, authVars, partVars>>

NoTimeout == [state |-> "none", deadline |-> 0]

\* an id without a row in the User table; refreshToken 0 is null
NoUser == [email |-> "", username |-> "", refreshToken |-> 0]

\* a register call that has not been made; tokens is the refresh token of
\* the TokenResponse, 0 when none was returned
NoRegister == [pc |-> "idle", email |-> "", username |-> "", error |-> "",
               tokens |-> 0]

\* a session id without a VoiceSession row
NoRecord == [status |-> "none", inputTokens |-> 0, outputTokens |-> 0,
             inputAudioTokens |-> 0, outputAudioTokens |-> 0]

\* a call_id upstream has not used yet
NoCall == [name |-> "", output |-> ""]

\* an updateInventory call that has not been made; read is part.quantity of
\* the row findUnique returned
NoInventoryCall == [pc |-> "idle", type |-> "", quantity |-> 0, read |-> 0,
                    newQuantity |-> 0, error |-> ""]

\* a refreshToken call that has not been made; token is the refresh token
\* presented, tokens the refresh token of the TokenResponse
NoRefresh == [pc |-> "idle", token |-> 0, error |-> "", tokens |-> 0]

Init ==
    /\ crashed = FALSE
    /\ now = 0
    /\ authData = [id \in SessionIds |-> "unset"]
    /\ hs = [id \in SessionIds |-> "none"]
    /\ hpc = [id \in SessionIds |-> "idle"]
    /\ sessions = {}
    /\ sessionTimeouts = [id \in SessionIds |-> NoTimeout]
    /\ lastActivity = [id \in SessionIds |-> 0]
    /\ cws = [id \in SessionIds |-> "NONE"]
    /\ closeReason = [id \in SessionIds |-> "none"]
    /\ wsRef = [id \in SessionIds |-> FALSE]
    /\ uws = [id \in SessionIds |-> "NONE"]
    /\ status = [id \in SessionIds |-> "none"]
    /\ heartbeat = [id \in SessionIds |-> FALSE]
    /\ inputTokens = [id \in SessionIds |-> 0]
    /\ outputTokens = [id \in SessionIds |-> 0]
    /\ pendingCleanups = [id \in SessionIds |-> 0]
    /\ finalizeCalls = [id \in SessionIds |-> 0]
    /\ toClient = [id \in SessionIds |-> <<>>]
    /\ sentUp = [id \in SessionIds |-> <<>>]
    /\ callState = [id \in SessionIds |-> [c \in CallIds |-> "none"]]
    /\ cmsgs = [id \in SessionIds |-> 0]
    /\ umsgs = [id \in SessionIds |-> 0]
    /\ earlyAudio = [id \in SessionIds |-> 0]
    /\ lastEvent = [id \in SessionIds |-> 0]
    /\ usageLog = [id \in SessionIds |-> <<>>]
    /\ callInfo = [id \in SessionIds |-> [c \in CallIds |-> NoCall]]
    /\ disconnectedEmits = [id \in SessionIds |-> 0]
    /\ upLog = [id \in SessionIds |-> <<>>]
    /\ clientLog = [id \in SessionIds |-> <<>>]
    /\ voiceRecord = [id \in SessionIds |-> NoRecord]
    /\ repoFailures = [id \in SessionIds |-> 0]
    /\ createdAt = [id \in SessionIds |-> 0]
    /\ pendingUpdates = [id \in SessionIds |-> <<>>]
    /\ users = [x \in RegCalls |-> NoUser]
    /\ registers = [c \in RegCalls |-> NoRegister]
    /\ signed = 0
    /\ clock = 0
    /\ refreshes = [r \in RefreshCalls |-> NoRefresh]
    /\ stale = {}
    /\ quantity = InitialQuantity
    /\ inventory = [c \in InventoryCalls |-> NoInventoryCall]
    /\ inventoryLogs = <<>>

\* ---------------------------------------------------------------- helpers

\* ws.send on a socket that is not OPEN sends nothing (and, without a
\* callback, does not throw)
ClientSendFirst(tc, id, ev) ==
    IF cws[id] = "OPEN" THEN [tc EXCEPT ![id] = <<ev>> \o @] ELSE tc
ClientSend(tc, id, ev) ==
    IF cws[id] = "OPEN" THEN [tc EXCEPT ![id] = Append(@, ev)] ELSE tc

\* resetSessionTimeout: clearTimeout of the old handle, setTimeout of a new
\* one SESSION_TIMEOUT_MS from now
resetSessionTimeout(tmo, id) ==
    [tmo EXCEPT ![id] = [state |-> "armed",
                         deadline |-> now + SESSION_TIMEOUT_MIN]]

\* the listeners of setupOpenAIListeners / setupClientListeners exist once
\* the 'connection' handler got past `await openaiService.connect`
ListenersInstalled(id) == hpc[id] = "ready"

\* WebSocket.close() of the ws library: an OPEN socket starts the closing
\* handshake, a CONNECTING one aborts its handshake (the library then emits
\* 'error'), others are left as they are
WsCloseCall(st) ==
    IF st = "OPEN" THEN "CLOSING"
    ELSE IF st = "CONNECTING" THEN "ABORTING"   \* abortHandshake
    ELSE st

\* a message on the upstream socket; call is the call_id of a
\* function_call_output item and 0 otherwise
UpMsg(type, call) == [type |-> type, call |-> call]

\* the guard every send method of the service starts with
UpstreamOpen(id) == wsRef[id] /\ uws[id] = "OPEN"

\* --------------------------------------------------------- handshake gate

\* the credentials an upgrade request can carry
Tokens == {"absent", "garbage", "noUserId", "good"}
ApiKeys == {"absent", "wrong", "master"}

\* verifyWebSocketToken: the user id, or "null"
verifyWebSocketToken(token, apiKey) ==
    IF token = "absent" /\ apiKey = "master" THEN "api-key-user"
    ELSE IF token = "absent" THEN "null"
    ELSE IF token = "garbage" THEN "null"       \* jwt.verify throws
    ELSE IF token = "noUserId" THEN "null"
    ELSE "user"

\* handleUpgrade's `if (!authData)` test
UpgradeRejectedNever(a) == FALSE
UpgradeRejected(a) == a = "null"

\* handleUpgrade, and for an accepted request the 'connection' handler up to
\* `await this.createVoiceSessionRecord`
HandleUpgrade(id, token, apiKey) ==
    /\ ~crashed
    /\ hs[id] = "none"
    /\ authData' = [authData EXCEPT ![id] = verifyWebSocketToken(token, apiKey)]
    /\ IF UpgradeRejected(verifyWebSocketToken(token, apiKey))
       THEN /\ hs' = [hs EXCEPT ![id] = "401"]
            /\ UNCHANGED <<hpc, sessions, sessionTimeouts, lastActivity, cws,
                           lastEvent, createdAt>>
       ELSE /\ hs' = [hs EXCEPT ![id] = "upgraded"]
            /\ cws' = [cws EXCEPT ![id] = "OPEN"]
            /\ sessions' = sessions \cup {id}
            /\ sessionTimeouts' = resetSessionTimeout(sessionTimeouts, id)
            /\ createdAt' = [createdAt EXCEPT ![id] = now]
            /\ lastActivity' = [lastActivity EXCEPT ![id] = now]
            /\ lastEvent' = [lastEvent EXCEPT ![id] = now]
            /\ hpc' = [hpc EXCEPT ![id] = "awaitRecord"]
    /\ UNCHANGED <<partVars, authVars, pendingUpdates, repoFailures, voiceRecord, clientLog, upLog,
                   disconnectedEmits, callInfo, crashed, now, closeReason,
                   wsRef, uws, status, heartbeat, inputTokens, outputTokens,
                   pendingCleanups, finalizeCalls, toClient, sentUp,
                   callState, cmsgs, umsgs, earlyAudio, usageLog>>

\* ------------------------------------------------------ session records

\* `const userId = authData.userId` of the 'connection' handler: authData is
\* the string verifyWebSocketToken returned, and a string has no userId
UserIdOf(a) == "undefined"

\* prisma.voiceSession.create: userId is a required column of VoiceSession
CreateAccepted(userId) == userId # "undefined"

\* prisma.voiceSession.update: the row with this id must exist
UpdateAccepted(vr, id) == vr[id].status # "none"

\* the row after createVoiceSessionRecord
createVoiceSessionRecord(vr, id, userId) ==
    IF CreateAccepted(userId)
    THEN [vr EXCEPT ![id] = [NoRecord EXCEPT !.status = "active"]]
    ELSE vr

\* the row after updateVoiceSessionMetrics: the two token totals, nothing
\* else
updateVoiceSessionMetrics(vr, id, inTok, outTok) ==
    IF UpdateAccepted(vr, id)
    THEN [vr EXCEPT ![id].inputTokens = inTok, ![id].outputTokens = outTok]
    ELSE vr

\* the row after finalizeVoiceSession: status and the two token totals
finalizeVoiceSession(vr, id, inTok, outTok) ==
    IF UpdateAccepted(vr, id)
    THEN [vr EXCEPT ![id].status = "completed",
                    ![id].inputTokens = inTok, ![id].outputTokens = outTok]
    ELSE vr

\* the try/catch of createVoiceSessionRecord logs a failed create and
\* returns
CreateRecordRethrows(userId) == ~CreateAccepted(userId)
CreateRecordThrows(userId) == FALSE

\* createVoiceSessionRecord returned; the handler goes on to
\* openaiService.connect, up to the promise it awaits.  Were the create to
\* throw, the handler's catch would answer with an error event and
\* close(1011)
RecordCreated(id) ==
    /\ ~crashed
    /\ hpc[id] = "awaitRecord"
    /\ voiceRecord' = createVoiceSessionRecord(voiceRecord, id,
                                               UserIdOf(authData[id]))
    /\ repoFailures' = [repoFailures EXCEPT ![id] =
                           IF CreateAccepted(UserIdOf(authData[id]))
                           THEN @ ELSE @ + 1]
    /\ IF CreateRecordThrows(UserIdOf(authData[id]))
       THEN /\ hpc' = [hpc EXCEPT ![id] = "failed"]
            /\ toClient' = ClientSend(toClient, id, "error")
            /\ cws' = [cws EXCEPT ![id] = IF @ = "OPEN" THEN "CLOSING" ELSE @]
            /\ closeReason' = [closeReason EXCEPT ![id] =
                                  IF cws[id] = "OPEN" THEN "Server error" ELSE @]
            /\ UNCHANGED <<status, inputTokens, outputTokens, wsRef, uws>>
       ELSE /\ hpc' = [hpc EXCEPT ![id] = "awaitConnect"]
            /\ status' = [status EXCEPT ![id] = "connecting"]
            /\ inputTokens' = [inputTokens EXCEPT ![id] = 0]
            /\ outputTokens' = [outputTokens EXCEPT ![id] = 0]
            /\ wsRef' = [wsRef EXCEPT ![id] = TRUE]
            /\ uws' = [uws EXCEPT ![id] = "CONNECTING"]
            /\ UNCHANGED <<toClient, cws, closeReason>>
    /\ UNCHANGED <<partVars, authVars, pendingUpdates, createdAt, clientLog, upLog, disconnectedEmits,
                   callInfo, crashed, now, authData, hs, sessions,
                   sessionTimeouts, lastActivity, heartbeat, pendingCleanups,
                   finalizeCalls, sentUp, callState, cmsgs, umsgs,
                   earlyAudio, lastEvent, usageLog>>

\* ------------------------------------------------------------- teardown

\* OpenAIRealtimeService.disconnect, then the rest of cleanupSession up to
\* the update finalizeVoiceSession awaits (the row is written with the
\* totals read at the call); tmo, st, hb, us and cs are the values
\* the calling listener left in sessionTimeouts, status, heartbeatInterval
\* and the two sockets' readyState
cleanupSession(id, tmo, st, hb, us, cs) ==
    IF id \in sessions
    THEN /\ wsRef' = [wsRef EXCEPT ![id] = FALSE]
         /\ uws' = [us EXCEPT ![id] = IF wsRef[id] THEN WsCloseCall(@) ELSE @]
         /\ heartbeat' = [hb EXCEPT ![id] = FALSE]
         /\ status' = [st EXCEPT ![id] =
                          IF @ = "none" THEN @ ELSE "disconnected"]
         /\ cws' = [cs EXCEPT ![id] = IF @ = "OPEN" THEN "CLOSING" ELSE @]
         /\ closeReason' = [closeReason EXCEPT ![id] =
                               IF cs[id] = "OPEN" THEN "Session ended" ELSE @]
         /\ finalizeCalls' = [finalizeCalls EXCEPT ![id] = @ + 1]
         /\ voiceRecord' = finalizeVoiceSession(voiceRecord, id,
                                                inputTokens[id], outputTokens[id])
         /\ repoFailures' = [repoFailures EXCEPT ![id] =
                                IF UpdateAccepted(voiceRecord, id)
                                THEN @ ELSE @ + 1]
         /\ pendingCleanups' = [pendingCleanups EXCEPT ![id] = @ + 1]
         /\ sessionTimeouts' = tmo
    ELSE /\ sessionTimeouts' = [tmo EXCEPT ![id] = NoTimeout]
         /\ heartbeat' = hb
         /\ status' = st
         /\ uws' = us
         /\ cws' = cs
         /\ UNCHANGED <<wsRef, closeReason, finalizeCalls, pendingCleanups,
                        voiceRecord, repoFailures>>

\* finalizeVoiceSession returned (it swallows a failed update): the rest of
\* cleanupSession
CleanupResume(id) ==
    /\ ~crashed
    /\ pendingCleanups[id] > 0
    /\ pendingCleanups' = [pendingCleanups EXCEPT ![id] = @ - 1]
    /\ sessions' = sessions \ {id}
    /\ sessionTimeouts' = [sessionTimeouts EXCEPT ![id] = NoTimeout]
    /\ UNCHANGED <<partVars, authVars, pendingUpdates, repoFailures, voiceRecord, createdAt, clientLog,
                   upLog, disconnectedEmits, callInfo, crashed, now,
                   authData, hs, hpc, lastActivity, cws, closeReason, wsRef,
                   uws, status, heartbeat, inputTokens, outputTokens,
                   finalizeCalls, toClient, sentUp, callState, cmsgs, umsgs,
                   earlyAudio, lastEvent, usageLog>>

\* the setTimeout callback of resetSessionTimeout
TimerCallback(id) ==
    /\ ~crashed
    /\ sessionTimeouts[id].state = "armed"
    /\ cleanupSession(id,
                      [sessionTimeouts EXCEPT ![id].state = "fired"],
                      status, heartbeat, uws, cws)
    /\ UNCHANGED <<partVars, authVars, pendingUpdates, createdAt, clientLog, upLog, disconnectedEmits,
                   callInfo, crashed, now, authData, hs, hpc, sessions,
                   lastActivity, inputTokens, outputTokens, toClient, sentUp,
                   callState, cmsgs, umsgs, earlyAudio, lastEvent, usageLog>>

\* the callback runs once the simulated clock has reached the deadline
TimerFires(id) ==
    /\ now >= sessionTimeouts[id].deadline
    /\ TimerCallback(id)

\* a minute passes; a timer that is due runs before the clock moves on
Tick ==
    /\ ~crashed
    /\ now < MaxTime
    /\ \A id \in SessionIds :
          sessionTimeouts[id].state = "armed" => now < sessionTimeouts[id].deadline
    /\ now' = now + 1
    /\ UNCHANGED <<partVars, authVars, pendingUpdates, createdAt, repoFailures, voiceRecord, clientLog,
                   upLog, disconnectedEmits, callInfo, crashed, authData, hs,
                   hpc, sessions, sessionTimeouts, lastActivity, cws,
                   closeReason, wsRef, uws, status, heartbeat, inputTokens,
                   outputTokens, pendingCleanups, finalizeCalls, toClient,
                   sentUp, callState, cmsgs, umsgs, earlyAudio, lastEvent,
                   usageLog>>

\* ------------------------------------------------------ upstream socket

\* ws 'open': status, setupHeartbeat, sendSessionUpdate, resolve(); the
\* 'connection' handler resumes in the same turn: setupOpenAIListeners,
\* setupClientListeners, session.created to the client
WsOpen(id) ==
    /\ ~crashed
    /\ uws[id] = "CONNECTING"
    /\ uws' = [uws EXCEPT ![id] = "OPEN"]
    /\ status' = [status EXCEPT ![id] = "connected"]
    /\ heartbeat' = [heartbeat EXCEPT ![id] = TRUE]
    /\ sentUp' = [sentUp EXCEPT ![id] = Append(@, UpMsg("session.update", 0))]
    /\ hpc' = [hpc EXCEPT ![id] = "ready"]
    /\ toClient' = ClientSend(toClient, id, "session.created")
    /\ UNCHANGED <<partVars, authVars, pendingUpdates, createdAt, repoFailures, voiceRecord, clientLog,
                   upLog, disconnectedEmits, callInfo, crashed, now,
                   authData, hs, sessions, sessionTimeouts, lastActivity,
                   cws, closeReason, wsRef, inputTokens, outputTokens,
                   pendingCleanups, finalizeCalls, callState, cmsgs, umsgs,
                   earlyAudio, lastEvent, usageLog>>

\* ws 'error': status = 'error', emit('error'), reject().  An EventEmitter
\* without an 'error' listener throws from emit: before the handler's
\* listeners exist the throw is an uncaught exception, and index.ts answers
\* that with process.exit(1); reject() is not reached
WsError(id) ==
    /\ ~crashed
    /\ uws[id] \in {"CONNECTING", "OPEN", "CLOSING", "ABORTING"}
    /\ uws' = [uws EXCEPT ![id] = "ERRORED"]
    /\ status' = [status EXCEPT ![id] = "error"]
    /\ IF ListenersInstalled(id)
       THEN /\ toClient' = ClientSend(toClient, id, "error")
            /\ UNCHANGED crashed
       ELSE /\ crashed' = TRUE
            /\ UNCHANGED toClient
    /\ UNCHANGED <<partVars, authVars, pendingUpdates, createdAt, repoFailures, voiceRecord, clientLog,
                   upLog, disconnectedEmits, callInfo, now, authData, hs,
                   hpc, sessions, sessionTimeouts, lastActivity, cws,
                   closeReason, wsRef, heartbeat, inputTokens, outputTokens,
                   pendingCleanups, finalizeCalls, sentUp, callState, cmsgs,
                   umsgs, earlyAudio, lastEvent, usageLog>>

\* handleDisconnect ends with this.emit('disconnected'), whatever the status
\* was
EmitsDisconnectedIfConnected(st) == st = "connected"
EmitsDisconnected(st) == TRUE

\* ws 'close': handleDisconnect, and the handler's 'disconnected' listener
WsClose(id) ==
    /\ ~crashed
    /\ uws[id] \in {"OPEN", "CLOSING", "ERRORED"}
    /\ disconnectedEmits' = [disconnectedEmits EXCEPT ![id] =
                                IF EmitsDisconnected(status[id]) THEN @ + 1 ELSE @]
    /\ IF ListenersInstalled(id) /\ EmitsDisconnected(status[id])
       THEN /\ toClient' = ClientSend(toClient, id, "disconnected")
            /\ cleanupSession(id, sessionTimeouts,
                              [status EXCEPT ![id] = "disconnected"],
                              [heartbeat EXCEPT ![id] = FALSE],
                              [uws EXCEPT ![id] = "CLOSED"], cws)
       ELSE /\ status' = [status EXCEPT ![id] = "disconnected"]
            /\ heartbeat' = [heartbeat EXCEPT ![id] = FALSE]
            /\ uws' = [uws EXCEPT ![id] = "CLOSED"]
            /\ UNCHANGED <<toClient, sessionTimeouts, wsRef, cws,
                           closeReason, finalizeCalls, pendingCleanups,
                           voiceRecord, repoFailures>>
    /\ UNCHANGED <<partVars, authVars, pendingUpdates, createdAt, clientLog, upLog, callInfo, crashed,
                   now, authData, hs, hpc, sessions, lastActivity,
                   inputTokens, outputTokens, sentUp, callState, cmsgs,
                   umsgs, earlyAudio, lastEvent, usageLog>>

\* ---------------------------------------------------------- client socket

\* what the switch of the client 'message' listener sends upstream; payload
\* says whether the message has the field its case tests (message.audio,
\* message.item.content[0].text)
ForwardedUpSameType(type, payload) ==
    IF type \in {"input_audio_buffer.append", "input_audio_buffer.commit",
                 "input_audio_buffer.clear", "conversation.item.create",
                 "response.create", "response.cancel"}
    THEN <<UpMsg(type, 0)>>
    ELSE <<>>
ForwardedUp(type, payload) ==
    CASE type = "input_audio_buffer.append" /\ payload ->
            <<UpMsg("input_audio_buffer.append", 0)>>
      [] type = "input_audio_buffer.commit" ->
            <<UpMsg("input_audio_buffer.commit", 0)>>
      [] type = "input_audio_buffer.clear" ->
            <<UpMsg("input_audio_buffer.clear", 0)>>
      [] type = "conversation.item.create" /\ payload ->
            <<UpMsg("conversation.item.create", 0), UpMsg("response.create", 0)>>
      [] type = "response.create" -> <<UpMsg("response.create", 0)>>
      [] type = "response.cancel" -> <<UpMsg("response.cancel", 0)>>
      [] OTHER -> <<>>

\* what the listener sends back to the client when nothing throws
RepliedToClient(type) ==
    CASE type = "conversation.item.truncate" -> <<"error">>
      [] type = "ping" -> <<"pong">>
      [] OTHER -> <<>>

\* the listener throws: JSON.parse on a malformed payload, or a send method
\* of the service while the upstream socket is not open
MessageNeverThrows(id, type, payload) == FALSE
MessageThrows(id, type, payload) ==
    \/ type = "malformed"
    \/ ForwardedUp(type, payload) # <<>> /\ ~UpstreamOpen(id)

\* a client frame arrives; without a 'message' listener it is dropped
ClientMessage(id, type, payload) ==
    /\ ~crashed
    /\ cws[id] \in {"OPEN", "CLOSING"}
    /\ cmsgs[id] < MaxClientMsgs
    /\ cmsgs' = [cmsgs EXCEPT ![id] = @ + 1]
    /\ IF ListenersInstalled(id)
       THEN /\ clientLog' = [clientLog EXCEPT ![id] =
                                Append(@, [type |-> type, payload |-> payload])]
            /\ lastActivity' = [lastActivity EXCEPT ![id] = now]
            /\ lastEvent' = [lastEvent EXCEPT ![id] = now]
            /\ sessionTimeouts' = resetSessionTimeout(sessionTimeouts, id)
            /\ IF MessageThrows(id, type, payload)
               THEN /\ toClient' = ClientSend(toClient, id, "error")
                    /\ UNCHANGED sentUp
               ELSE /\ sentUp' = [sentUp EXCEPT ![id] =
                                     @ \o ForwardedUp(type, payload)]
                    /\ toClient' =
                          IF RepliedToClient(type) = <<>> THEN toClient
                          ELSE ClientSend(toClient, id, RepliedToClient(type)[1])
            /\ UNCHANGED earlyAudio
       ELSE /\ earlyAudio' = [earlyAudio EXCEPT ![id] =
                  IF type = "input_audio_buffer.append" /\ payload
                  THEN @ + 1 ELSE @]
            /\ UNCHANGED <<lastActivity, lastEvent, sessionTimeouts,
                           toClient, sentUp, clientLog>>
    /\ UNCHANGED <<partVars, authVars, pendingUpdates, createdAt, repoFailures, voiceRecord, upLog,
                   disconnectedEmits, callInfo, crashed, now, authData, hs,
                   hpc, sessions, cws, closeReason, wsRef, uws, status,
                   heartbeat, inputTokens, outputTokens, pendingCleanups,
                   finalizeCalls, callState, umsgs, usageLog>>

\* client 'close'
ClientClose(id) ==
    /\ ~crashed
    /\ cws[id] \in {"OPEN", "CLOSING", "ERRORED"}
    /\ IF ListenersInstalled(id)
       THEN cleanupSession(id, sessionTimeouts, status, heartbeat, uws,
                           [cws EXCEPT ![id] = "CLOSED"])
       ELSE /\ cws' = [cws EXCEPT ![id] = "CLOSED"]
            /\ UNCHANGED <<sessionTimeouts, status, heartbeat, uws, wsRef,
                           closeReason, finalizeCalls, pendingCleanups,
                           voiceRecord, repoFailures>>
    /\ UNCHANGED <<partVars, authVars, pendingUpdates, createdAt, clientLog, upLog, disconnectedEmits,
                   callInfo, crashed, now, authData, hs, hpc, sessions,
                   lastActivity, inputTokens, outputTokens, toClient, sentUp,
                   callState, cmsgs, umsgs, earlyAudio, lastEvent, usageLog>>

\* client 'error' (the ws library emits 'close' after it)
ClientError(id) ==
    /\ ~crashed
    /\ cws[id] \in {"OPEN", "CLOSING"}
    /\ IF ListenersInstalled(id)
       THEN cleanupSession(id, sessionTimeouts, status, heartbeat, uws,
                           [cws EXCEPT ![id] = "ERRORED"])
       ELSE /\ cws' = [cws EXCEPT ![id] = "ERRORED"]
            /\ UNCHANGED <<sessionTimeouts, status, heartbeat, uws, wsRef,
                           closeReason, finalizeCalls, pendingCleanups,
                           voiceRecord, repoFailures>>
    /\ UNCHANGED <<partVars, authVars, pendingUpdates, createdAt, clientLog, upLog, disconnectedEmits,
                   callInfo, crashed, now, authData, hs, hpc, sessions,
                   lastActivity, inputTokens, outputTokens, toClient, sentUp,
                   callState, cmsgs, umsgs, earlyAudio, lastEvent, usageLog>>

\* ------------------------------------------------------ upstream messages

\* message types handleMessage re-emits unchanged and the handler forwards
PassThroughTypesWithoutAudio ==
    {"session.created", "session.updated", "conversation.item.created",
     "conversation.item.input_audio_transcription.completed",
     "response.created", "response.text.delta", "response.text.done",
     "response.function_call_arguments.delta", "rate_limits.updated"}
PassThroughTypes ==
    {"session.created", "session.updated", "conversation.item.created",
     "conversation.item.input_audio_transcription.completed",
     "response.created", "response.audio.delta", "response.audio.done",
     "response.text.delta", "response.text.done",
     "response.function_call_arguments.delta", "rate_limits.updated"}

\* the event name handleMessage emits for an upstream message type
EmittedAs(type) ==
    IF type = "conversation.item.input_audio_transcription.completed"
    THEN "input_audio_transcription.completed"
    ELSE type

\* `total += reported || 0`
AddUsageReplacing(total, reported) == reported
AddUsage(total, reported) == total + reported

\* handleMessage for every type but response.function_call_arguments.done:
\* u is response.usage of a response.done, <<>> when absent, as <<input_tokens,
\* output_tokens, input audio_tokens, output audio_tokens>> (the audio
\* details are logged and dropped).  The handler's response.done listener
\* forwards the event and calls updateVoiceSessionMetrics with the totals
UpstreamMessage(id, type, u) ==
    /\ ~crashed
    /\ uws[id] \in {"OPEN", "CLOSING"}
    /\ umsgs[id] < MaxUpstreamMsgs
    /\ umsgs' = [umsgs EXCEPT ![id] = @ + 1]
    /\ upLog' = [upLog EXCEPT ![id] = Append(@, type)]
    /\ type = "response.done" \/ u = <<>>
    /\ IF type = "response.done" /\ u # <<>>
       THEN /\ inputTokens' = [inputTokens EXCEPT ![id] = AddUsage(@, u[1])]
            /\ outputTokens' = [outputTokens EXCEPT ![id] = AddUsage(@, u[2])]
            /\ usageLog' = [usageLog EXCEPT ![id] = Append(@, u)]
       ELSE UNCHANGED <<inputTokens, outputTokens, usageLog>>
    /\ pendingUpdates' =
          IF type = "response.done" /\ ListenersInstalled(id)
          THEN [pendingUpdates EXCEPT ![id] =
                   Append(@, <<inputTokens'[id], outputTokens'[id]>>)]
          ELSE pendingUpdates
    /\ IF type \in PassThroughTypes \cup {"response.done", "error"}
          /\ ListenersInstalled(id)
       THEN /\ toClient' = ClientSend(toClient, id, EmittedAs(type))
            /\ lastEvent' = [lastEvent EXCEPT ![id] = now]
       ELSE UNCHANGED <<toClient, lastEvent>>
    /\ UNCHANGED <<partVars, authVars, voiceRecord, repoFailures, createdAt, clientLog,
                   disconnectedEmits, callInfo, crashed, now, authData, hs,
                   hpc, sessions, sessionTimeouts, lastActivity, cws,
                   closeReason, wsRef, uws, status, heartbeat,
                   pendingCleanups, finalizeCalls, sentUp, callState, cmsgs,
                   earlyAudio>>

\* q without its i-th element
RemoveAt(q, i) == SubSeq(q, 1, i - 1) \o SubSeq(q, i + 1, Len(q))

\* the update one updateVoiceSessionMetrics call awaits has ended: the row
\* holds the totals read at the call, or the update failed and the catch
\* logged it.  Calls issued one after another end in any order
UpdateSettles(id, i) ==
    /\ ~crashed
    /\ i \in DOMAIN pendingUpdates[id]
    /\ voiceRecord' = updateVoiceSessionMetrics(voiceRecord, id,
                          pendingUpdates[id][i][1], pendingUpdates[id][i][2])
    /\ repoFailures' = [repoFailures EXCEPT ![id] =
                           IF UpdateAccepted(voiceRecord, id) THEN @ ELSE @ + 1]
    /\ pendingUpdates' = [pendingUpdates EXCEPT ![id] = RemoveAt(@, i)]
    /\ UNCHANGED <<partVars, authVars, createdAt, clientLog, upLog, disconnectedEmits,
                   callInfo, crashed, now, authData, hs, hpc, sessions,
                   sessionTimeouts, lastActivity, cws, closeReason, wsRef,
                   uws, status, heartbeat, inputTokens, outputTokens,
                   pendingCleanups, finalizeCalls, toClient, sentUp,
                   callState, cmsgs, umsgs, earlyAudio, lastEvent, usageLog>>

\* FunctionToolsService.executeFunction: the FunctionCallResult for a tool
\* name; threw says whether the handler of a registered tool threw
UnknownFunctionError(name) == "Unknown function: " \o name

executeFunction(name, threw) ==
    IF name \notin RegisteredTools
    THEN [success |-> FALSE, data |-> "", error |-> UnknownFunctionError(name)]
    ELSE IF threw
    THEN [success |-> FALSE, data |-> "", error |-> "handler failed"]
    ELSE [success |-> TRUE, data |-> "{data}", error |-> ""]

\* JSON.stringify(result.data || { error: result.error })
FunctionOutput(result) ==
    IF result.data # "" THEN result.data
    ELSE "{error:\"" \o result.error \o "\"}"

\* the output recorded for a call, when its result is sent
RecordOutput(ci, id, c, result) ==
    IF UpstreamOpen(id)
    THEN [ci EXCEPT ![id][c].output = FunctionOutput(result)]
    ELSE ci

\* the two messages handleFunctionCall sends when the socket is open
SendFunctionResultThenNothing(su, id, c) ==
    IF UpstreamOpen(id)
    THEN [su EXCEPT ![id] = @ \o <<UpMsg("function_call_output", c)>>]
    ELSE su
SendFunctionResult(su, id, c) ==
    IF UpstreamOpen(id)
    THEN [su EXCEPT ![id] = @ \o <<UpMsg("function_call_output", c),
                                   UpMsg("response.create", 0)>>]
    ELSE su

\* response.function_call_arguments.done: forwarded to the client, then
\* handleFunctionCall up to `await executeFunction`.  JSON.parse of the
\* arguments may throw (caught and logged); an unregistered name gets its
\* error result at once; a registered tool's handler is awaited
FunctionCallRequest(id, c, name, argsParse) ==
    /\ ~crashed
    /\ uws[id] \in {"OPEN", "CLOSING"}
    /\ umsgs[id] < MaxUpstreamMsgs
    /\ callState[id][c] = "none"
    /\ \A d \in CallIds : d < c => callState[id][d] # "none"
    /\ umsgs' = [umsgs EXCEPT ![id] = @ + 1]
    /\ upLog' = [upLog EXCEPT ![id] =
                    Append(@, "response.function_call_arguments.done")]
    /\ IF ListenersInstalled(id)
       THEN /\ toClient' = ClientSend(toClient, id,
                                      "response.function_call_arguments.done")
            /\ lastEvent' = [lastEvent EXCEPT ![id] = now]
       ELSE UNCHANGED <<toClient, lastEvent>>
    /\ IF ~argsParse
       THEN /\ callState' = [callState EXCEPT ![id][c] = "failed"]
            /\ callInfo' = [callInfo EXCEPT ![id][c].name = name]
            /\ UNCHANGED sentUp
       ELSE IF name \notin RegisteredTools
       THEN /\ callState' = [callState EXCEPT ![id][c] = "completed"]
            /\ sentUp' = SendFunctionResult(sentUp, id, c)
            /\ callInfo' = RecordOutput([callInfo EXCEPT ![id][c].name = name],
                                        id, c, executeFunction(name, FALSE))
       ELSE /\ callState' = [callState EXCEPT ![id][c] = "running"]
            /\ callInfo' = [callInfo EXCEPT ![id][c].name = name]
            /\ UNCHANGED sentUp
    /\ UNCHANGED <<partVars, authVars, pendingUpdates, createdAt, repoFailures, voiceRecord, clientLog,
                   disconnectedEmits, crashed, now, authData, hs, hpc,
                   sessions, sessionTimeouts, lastActivity, cws, closeReason,
                   wsRef, uws, status, heartbeat, inputTokens, outputTokens,
                   pendingCleanups, finalizeCalls, cmsgs, earlyAudio,
                   usageLog>>

\* the awaited handler settled: it returned a result, or it threw and
\* executeFunction's catch made an error result of it.  A handler that never
\* settles leaves the call "running" (nothing times the await out)
ToolSettles(id, c, threw) ==
    /\ ~crashed
    /\ callState[id][c] = "running"
    /\ callState' = [callState EXCEPT ![id][c] = "completed"]
    /\ sentUp' = SendFunctionResult(sentUp, id, c)
    /\ callInfo' = RecordOutput(callInfo, id, c,
                                executeFunction(callInfo[id][c].name, threw))
    /\ UNCHANGED <<partVars, authVars, pendingUpdates, createdAt, repoFailures, voiceRecord, clientLog,
                   upLog, disconnectedEmits, crashed, now, authData, hs, hpc,
                   sessions, sessionTimeouts, lastActivity, cws, closeReason,
                   wsRef, uws, status, heartbeat, inputTokens, outputTokens,
                   pendingCleanups, finalizeCalls, toClient, cmsgs, umsgs,
                   earlyAudio, lastEvent, usageLog>>

\* ------------------------------------------------------- account service

\* the rows prisma.user.findFirst({where: {OR: [{email}, {username}]}}) can
\* return
Matching(email, username) ==
    {x \in RegCalls : /\ users[x] # NoUser
                      /\ \/ users[x].email = email
                         \/ users[x].username = username}

\* the message of the ConflictError for the row findFirst returned
ConflictMessageEmail(existingEmail, email) == "Email already exists"
ConflictMessage(existingEmail, email) ==
    IF existingEmail = email THEN "Email already exists"
    ELSE "Username already exists"

\* register up to `await bcrypt.hash`: the lookup, and the ConflictError
\* when it returned a row (any of the matching rows: the query has no order)
RegisterLookup(c, email, username) ==
    /\ registers[c].pc = "idle"
    /\ \A d \in RegCalls : d < c => registers[d].pc # "idle"
    /\ IF Matching(email, username) = {}
       THEN registers' = [registers EXCEPT ![c] =
                            [NoRegister EXCEPT !.pc = "create", !.email = email,
                                              !.username = username]]
       ELSE \E x \in Matching(email, username) :
               registers' = [registers EXCEPT ![c] =
                   [NoRegister EXCEPT !.pc = "done", !.email = email,
                                     !.username = username,
                                     !.error = ConflictMessage(users[x].email,
                                                               email)]]
    /\ UNCHANGED <<voiceVars, partVars, users, signed, clock, refreshes, stale>>

\* prisma.user.create: the unique indexes on email and username reject a row
\* that another call has created since the lookup, and the error of the
\* client library leaves register as it is
RegisterCreate(c) ==
    /\ registers[c].pc = "create"
    /\ IF Matching(registers[c].email, registers[c].username) = {}
       THEN /\ users' = [users EXCEPT ![c] =
                            [email |-> registers[c].email,
                             username |-> registers[c].username,
                             refreshToken |-> 0]]
            /\ registers' = [registers EXCEPT ![c].pc = "tokens"]
       ELSE /\ registers' = [registers EXCEPT ![c].pc = "done",
                                              ![c].error = "P2002"]
            /\ UNCHANGED users
    /\ UNCHANGED <<voiceVars, partVars, signed, clock, refreshes, stale>>

\* jwt.sign(payload, refreshSecret, {expiresIn}): the token is a function of
\* the payload (id, email, role of the user) and of iat, the second of the
\* call; two calls for one user within a second return the same string
jwtSign(x) == clock * MaxRegisters + x

\* payload.id of a refresh token
PayloadId(t) == ((t - 1) % MaxRegisters) + 1

\* generateTokens: the tokens are signed, the refresh token is stored in the
\* user's row
generateTokens(us, x) == [us EXCEPT ![x].refreshToken = jwtSign(x)]

\* the tokens that have stopped being the stored token of their user, once
\* the stored token old was replaced by new (0: set to null)
Superseded(st, old, new) ==
    IF old # 0 /\ old # new THEN st \cup {old} ELSE st

RegisterTokens(c) ==
    /\ registers[c].pc = "tokens"
    /\ signed' = signed + 1
    /\ users' = generateTokens(users, c)
    /\ stale' = Superseded(stale, users[c].refreshToken, jwtSign(c))
    /\ registers' = [registers EXCEPT ![c].pc = "done", ![c].tokens = jwtSign(c)]
    /\ UNCHANGED <<voiceVars, partVars, clock, refreshes>>

\* login with the right password, from the update generateTokens makes
Login(x) ==
    /\ users[x] # NoUser
    /\ signed < MaxRegisters + MaxLogins
    /\ signed' = signed + 1
    /\ users' = generateTokens(users, x)
    /\ stale' = Superseded(stale, users[x].refreshToken, jwtSign(x))
    /\ UNCHANGED <<voiceVars, partVars, registers, clock, refreshes>>

\* logout
Logout(x) ==
    /\ users[x] # NoUser
    /\ users[x].refreshToken # 0
    /\ users' = [users EXCEPT ![x].refreshToken = 0]
    /\ stale' = Superseded(stale, users[x].refreshToken, 0)
    /\ UNCHANGED <<voiceVars, partVars, registers, signed, clock, refreshes>>

\* changePassword with the right old password, from its update: the new
\* hash (not modelled) and refreshToken: null
ChangePassword(x) ==
    /\ users[x] # NoUser
    /\ users[x].refreshToken # 0
    /\ users' = [users EXCEPT ![x].refreshToken = 0]
    /\ stale' = Superseded(stale, users[x].refreshToken, 0)
    /\ UNCHANGED <<voiceVars, partVars, registers, signed, clock, refreshes>>

\* the test refreshToken makes on the row findUnique returned
RefreshRefusedNever(row, t) == FALSE
RefreshRefused(row, t) == row = NoUser \/ row.refreshToken # t

\* refreshToken up to the update of generateTokens: jwt.verify (verifies
\* says whether the signature and the expiry hold), the lookup by
\* payload.id and the comparison with the stored token.  Every throw ends
\* in the catch, which throws AuthenticationError('Invalid refresh token')
RefreshLookup(r, t, verifies) ==
    /\ refreshes[r].pc = "idle"
    /\ \A q \in RefreshCalls : q < r => refreshes[q].pc # "idle"
    /\ refreshes' = [refreshes EXCEPT ![r] =
          IF ~verifies \/ RefreshRefused(users[PayloadId(t)], t)
          THEN [NoRefresh EXCEPT !.pc = "done", !.token = t,
                                 !.error = "Invalid refresh token"]
          ELSE [NoRefresh EXCEPT !.pc = "tokens", !.token = t]]
    /\ UNCHANGED <<voiceVars, partVars, users, registers, signed, clock, stale>>

\* generateTokens of refreshToken: the new tokens are signed and the refresh
\* token is stored
RefreshTokens(r) ==
    /\ refreshes[r].pc = "tokens"
    /\ signed' = signed + 1
    /\ users' = generateTokens(users, PayloadId(refreshes[r].token))
    /\ stale' = Superseded(stale,
                           users[PayloadId(refreshes[r].token)].refreshToken,
                           jwtSign(PayloadId(refreshes[r].token)))
    /\ refreshes' = [refreshes EXCEPT ![r].pc = "done",
                        ![r].tokens = jwtSign(PayloadId(refreshes[r].token))]
    /\ UNCHANGED <<voiceVars, partVars, registers, clock>>

\* a second passes
SecondPasses ==
    /\ clock < MaxSeconds
    /\ clock' = clock + 1
    /\ UNCHANGED <<voiceVars, partVars, users, registers, signed, refreshes, stale>>

\* ------------------------------------------------------------- inventory

\* Math.abs
Abs(n) == IF n < 0 THEN -n ELSE n

\* newQuantity of the switch on data.type, for ADD and REMOVE
NewQuantity(read, type, n) ==
    IF type = "ADD" THEN read + Abs(n) ELSE read - Abs(n)

\* updateInventory up to `await prisma.$transaction`: the part is read (the
\* model's part exists, so the NotFoundError is not thrown), the new
\* quantity is computed from the row read, and a REMOVE that would go below
\* zero throws ValidationError('Insufficient quantity')
InventoryLookup(c, type, n) ==
    /\ inventory[c].pc = "idle"
    /\ \A d \in InventoryCalls : d < c => inventory[d].pc # "idle"
    /\ inventory' = [inventory EXCEPT ![c] =
          IF NewQuantity(quantity, type, n) < 0
          THEN [NoInventoryCall EXCEPT !.pc = "done", !.type = type,
                   !.quantity = n, !.read = quantity,
                   !.error = "Insufficient quantity"]
          ELSE [NoInventoryCall EXCEPT !.pc = "write", !.type = type,
                   !.quantity = n, !.read = quantity,
                   !.newQuantity = NewQuantity(quantity, type, n)]]
    /\ UNCHANGED <<voiceVars, authVars, quantity, inventoryLogs>>

\* the transaction: the part gets the new quantity and the log row is
\* created with the quantity read at the lookup as previousQty
InventoryWrite(c) ==
    /\ inventory[c].pc = "write"
    /\ quantity' = inventory[c].newQuantity
    /\ inventoryLogs' = Append(inventoryLogs,
          [type |-> inventory[c].type,
           quantity |-> inventory[c].quantity,
           previousQty |-> inventory[c].read,
           newQty |-> inventory[c].newQuantity])
    /\ inventory' = [inventory EXCEPT ![c].pc = "done"]
    /\ UNCHANGED <<voiceVars, authVars>>

\* ------------------------------------------------------------------ system

UpstreamTypes == PassThroughTypes \cup {"response.done", "error", "unhandled",
                                        "unparseable"}

\* Session lifecycle of one connection with the clock abstracted away: a
\* pending idle timer may expire at any moment.  One message type of each
\* kind of handling.
SpecIds == {1}
SpecClientTypes == {"input_audio_buffer.append", "ping", "malformed"}
SpecUpstreamTypes == {"response.audio.delta", "error"}

Next ==
    \/ \E id \in SpecIds, t \in Tokens, k \in ApiKeys : HandleUpgrade(id, t, k)
    \/ \E id \in SpecIds : RecordCreated(id)
    \/ \E id \in SpecIds : WsOpen(id)
    \/ \E id \in SpecIds : WsError(id)
    \/ \E id \in SpecIds : WsClose(id)
    \/ \E id \in SpecIds, t \in SpecClientTypes : ClientMessage(id, t, TRUE)
    \/ \E id \in SpecIds : ClientClose(id)
    \/ \E id \in SpecIds : ClientError(id)
    \/ \E id \in SpecIds, t \in SpecUpstreamTypes : UpstreamMessage(id, t, <<>>)
    \/ \E id \in SpecIds : TimerCallback(id)
    \/ \E id \in SpecIds : CleanupResume(id)

Spec == Init /\ [][Next]_vars

\* Tool calls of one connection, with every way the connection can end.
NextTools ==
    \/ \E id \in SpecIds : HandleUpgrade(id, "good", "absent")
    \/ \E id \in SpecIds : RecordCreated(id)
    \/ \E id \in SpecIds : WsOpen(id)
    \/ \E id \in SpecIds : WsError(id)
    \/ \E id \in SpecIds : WsClose(id)
    \/ \E id \in SpecIds : ClientClose(id)
    \/ \E id \in SpecIds, c \in CallIds, n \in ToolNames, a \in BOOLEAN :
          FunctionCallRequest(id, c, n, a)
    \/ \E id \in SpecIds, c \in CallIds, threw \in BOOLEAN :
          ToolSettles(id, c, threw)
    \/ \E id \in SpecIds : TimerCallback(id)
    \/ \E id \in SpecIds : CleanupResume(id)

SpecTools == Init /\ [][NextTools]_vars

\* Usage accounting of one connection.
NextUsage ==
    \/ \E id \in SpecIds : HandleUpgrade(id, "good", "absent")
    \/ \E id \in SpecIds : RecordCreated(id)
    \/ \E id \in SpecIds : WsOpen(id)
    \/ \E id \in SpecIds : WsClose(id)
    \/ \E id \in SpecIds : ClientClose(id)
    \/ \E id \in SpecIds, t \in {"response.done", "response.audio.delta"},
          u \in UsageReports : UpstreamMessage(id, t, u)
    \/ \E id \in SpecIds, i \in 1..MaxUpstreamMsgs : UpdateSettles(id, i)
    \/ \E id \in SpecIds : CleanupResume(id)

SpecUsage == Init /\ [][NextUsage]_vars

\* The idle timer of one connection against the simulated clock.
NextClock ==
    \/ \E id \in SpecIds : HandleUpgrade(id, "good", "absent")
    \/ \E id \in SpecIds : RecordCreated(id)
    \/ \E id \in SpecIds : WsOpen(id)
    \/ \E id \in SpecIds : ClientMessage(id, "ping", TRUE)
    \/ \E id \in SpecIds : UpstreamMessage(id, "response.audio.delta", <<>>)
    \/ \E id \in SpecIds : ClientClose(id)
    \/ \E id \in SpecIds : TimerFires(id)
    \/ \E id \in SpecIds : CleanupResume(id)
    \/ Tick

SpecClock == Init /\ [][NextClock]_vars

\* Two kinds of message in each direction of one connection.
OrderClientTypes == {"input_audio_buffer.append", "input_audio_buffer.commit"}
OrderUpstreamTypes == {"response.audio.delta", "response.text.delta"}

NextOrder ==
    \/ \E id \in SpecIds : HandleUpgrade(id, "good", "absent")
    \/ \E id \in SpecIds : RecordCreated(id)
    \/ \E id \in SpecIds : WsOpen(id)
    \/ \E id \in SpecIds : WsClose(id)
    \/ \E id \in SpecIds, t \in OrderClientTypes : ClientMessage(id, t, TRUE)
    \/ \E id \in SpecIds, t \in OrderUpstreamTypes : UpstreamMessage(id, t, <<>>)
    \/ \E id \in SpecIds : ClientClose(id)
    \/ \E id \in SpecIds : CleanupResume(id)

SpecOrder == Init /\ [][NextOrder]_vars

\* Every kind of client message, with and without the field its case tests,
\* on one connection.
NextRoute ==
    \/ \E id \in SpecIds : HandleUpgrade(id, "good", "absent")
    \/ \E id \in SpecIds : RecordCreated(id)
    \/ \E id \in SpecIds : WsOpen(id)
    \/ \E id \in SpecIds : WsClose(id)
    \/ \E id \in SpecIds, t \in ClientMsgTypes, p \in BOOLEAN :
          ClientMessage(id, t, p)
    \/ \E id \in SpecIds : ClientClose(id)
    \/ \E id \in SpecIds : CleanupResume(id)

SpecRoute == Init /\ [][NextRoute]_vars

\* Registrations racing for two emails and two usernames, with logins and
\* logouts of the users they create.
NextAuth ==
    \/ \E c \in RegCalls, e \in Emails, u \in Usernames : RegisterLookup(c, e, u)
    \/ \E c \in RegCalls : RegisterCreate(c)
    \/ \E c \in RegCalls : RegisterTokens(c)
    \/ \E x \in RegCalls : Login(x)
    \/ \E x \in RegCalls : Logout(x)

SpecAuth == Init /\ [][NextAuth]_vars

\* The handshake gate for two requests with every kind of credential, and
\* the lifecycle of the connections it lets through.
NextGate ==
    \/ \E id \in SessionIds, t \in Tokens, k \in ApiKeys : HandleUpgrade(id, t, k)
    \/ \E id \in SessionIds : RecordCreated(id)
    \/ \E id \in SessionIds : WsOpen(id)
    \/ \E id \in SessionIds : WsClose(id)
    \/ \E id \in SessionIds : ClientClose(id)
    \/ \E id \in SessionIds : TimerCallback(id)
    \/ \E id \in SessionIds : CleanupResume(id)

SpecGate == Init /\ [][NextGate]_vars

\* Both directions of one connection while tool handlers and usage updates
\* are pending.
NextPump ==
    \/ \E id \in SpecIds : HandleUpgrade(id, "good", "absent")
    \/ \E id \in SpecIds : RecordCreated(id)
    \/ \E id \in SpecIds : WsOpen(id)
    \/ \E id \in SpecIds : ClientMessage(id, "input_audio_buffer.append", TRUE)
    \/ \E id \in SpecIds : UpstreamMessage(id, "response.audio.delta", <<>>)
    \/ \E id \in SpecIds : UpstreamMessage(id, "response.done", <<10, 20, 4, 8>>)
    \/ \E id \in SpecIds, c \in CallIds :
          FunctionCallRequest(id, c, "get_weather", TRUE)
    \/ \E id \in SpecIds, c \in CallIds, threw \in BOOLEAN :
          ToolSettles(id, c, threw)
    \/ \E id \in SpecIds, i \in 1..MaxUpstreamMsgs : UpdateSettles(id, i)
    \/ \E id \in SpecIds : ClientClose(id)
    \/ \E id \in SpecIds : CleanupResume(id)

SpecPump == Init /\ [][NextPump]_vars

\* Two connections side by side: every kind of event on the first, the
\* plain course of a connection on the second.
NextPair ==
    \/ \E id \in SessionIds : HandleUpgrade(id, "good", "absent")
    \/ \E id \in SessionIds : RecordCreated(id)
    \/ \E id \in SessionIds : WsOpen(id)
    \/ \E id \in SpecIds : WsError(id)
    \/ \E id \in SpecIds : WsClose(id)
    \/ \E id \in SpecIds : ClientMessage(id, "input_audio_buffer.append", TRUE)
    \/ \E id \in SpecIds : UpstreamMessage(id, "response.done", <<10, 20, 4, 8>>)
    \/ \E id \in SpecIds, i \in 1..MaxUpstreamMsgs : UpdateSettles(id, i)
    \/ \E id \in SessionIds : ClientClose(id)
    \/ \E id \in SpecIds : TimerCallback(id)
    \/ \E id \in SessionIds : CleanupResume(id)

SpecPair == Init /\ [][NextPair]_vars

\* One user's refresh tokens: the user registers, logs in and out, changes
\* the password, and refreshToken is called with every token there is.
NextRefresh ==
    \/ RegisterLookup(1, "ann@x.org", "ann")
    \/ RegisterCreate(1)
    \/ RegisterTokens(1)
    \/ Login(1)
    \/ Logout(1)
    \/ ChangePassword(1)
    \/ \E r \in RefreshCalls, t \in TokenRange, v \in BOOLEAN :
          RefreshLookup(r, t, v)
    \/ \E r \in RefreshCalls : RefreshTokens(r)
    \/ SecondPasses

SpecRefresh == Init /\ [][NextRefresh]_vars

\* updateInventory calls on one part, one after another or overlapping.
NextInventory ==
    \/ \E c \in InventoryCalls, t \in InventoryTypes, n \in InventoryQuantities :
          InventoryLookup(c, t, n)
    \/ \E c \in InventoryCalls : InventoryWrite(c)

SpecInventory == Init /\ [][NextInventory]_vars

\* Teardown of one connection under fair scheduling.  What the runtime and
\* the ws library guarantee: a pending promise continuation runs (the
\* repository call returned or failed), an armed timer fires, a connection
\* attempt ends in 'open' or 'error', and a socket the server closed or that
\* failed emits 'close'.  Nothing obliges a peer to close or to send.
NextLive ==
    \/ \E id \in SpecIds : HandleUpgrade(id, "good", "absent")
    \/ \E id \in SpecIds : RecordCreated(id)
    \/ \E id \in SpecIds : WsOpen(id)
    \/ \E id \in SpecIds : WsError(id)
    \/ \E id \in SpecIds : WsClose(id)
    \/ \E id \in SpecIds : ClientMessage(id, "ping", TRUE)
    \/ \E id \in SpecIds : ClientClose(id)
    \/ \E id \in SpecIds : ClientError(id)
    \/ \E id \in SpecIds : UpstreamMessage(id, "response.audio.delta", <<>>)
    \/ \E id \in SpecIds : TimerCallback(id)
    \/ \E id \in SpecIds : CleanupResume(id)

Fairness ==
    \A id \in SpecIds :
        /\ WF_vars(RecordCreated(id))
        /\ WF_vars(CleanupResume(id))
        /\ WF_vars(TimerCallback(id))
        /\ WF_vars(uws[id] = "CONNECTING" /\ (WsOpen(id) \/ WsError(id)))
        /\ WF_vars(uws[id] = "ABORTING" /\ WsError(id))
        /\ WF_vars(uws[id] \in {"CLOSING", "ERRORED"} /\ WsClose(id))
        /\ WF_vars(cws[id] \in {"CLOSING", "ERRORED"} /\ ClientClose(id))

SpecLive == Init /\ [][NextLive]_vars /\ Fairness

\* ================================================================ claims

\* how often ev occurs in the sequence q
Count(q, ev) == Cardinality({i \in DOMAIN q : q[i] = ev})

\* C1: finalizeVoiceSession is called at most once for a session id, however
\* the termination triggers interleave (stated as the claim states it; the
\* code calls it again for a trigger that arrives while the first teardown
\* awaits the finalize call)
C1_FinalizeCalledOnce ==
    \A id \in SessionIds : finalizeCalls[id] <= 1

\* C2: every tool call whose handling has ended has exactly one
\* function_call_output with its call_id on the upstream socket
C2_OneResultPerToolCall ==
    \A id \in SessionIds : \A c \in CallIds :
        callState[id][c] \in {"completed", "failed"} =>
            Count(sentUp[id], UpMsg("function_call_output", c)) = 1

\* C3: the status of a session never moves back: connecting, connected,
\* error, disconnected in this order, and disconnected is final
StatusRank(st) ==
    CASE st = "none" -> 0
      [] st = "connecting" -> 1
      [] st = "connected" -> 2
      [] st = "error" -> 3
      [] st = "disconnected" -> 4

C3_StatusMonotonic ==
    [][\A id \in SessionIds :
          StatusRank(status'[id]) >= StatusRank(status[id])]_vars

\* C4: an id in the session map belongs to a live session: the server has
\* not closed its client socket and its upstream bridge has neither
\* disconnected nor failed
C4_RegisteredIsLive ==
    \A id \in sessions :
        /\ closeReason[id] = "none"
        /\ status[id] \notin {"disconnected", "error"}

\* C5: the idle timer closes a session only when the threshold has passed
\* since its last activity, so activity at T+9 keeps it open at T+10
C5_IdleCloseAfterFullThreshold ==
    [][\A id \in SessionIds :
          (sessionTimeouts[id].state = "armed"
             /\ sessionTimeouts'[id].state = "fired")
          => now >= lastEvent[id] + SESSION_TIMEOUT_MIN]_vars

\* C6: the countdown and lastActivity always run from the last event of
\* either leg, client message or upstream event
C6_TimerResetOnEveryEvent ==
    \A id \in SessionIds :
        hs[id] = "upgraded" =>
            /\ lastActivity[id] = lastEvent[id]
            /\ sessionTimeouts[id].state = "armed" =>
                  sessionTimeouts[id].deadline = lastEvent[id] + SESSION_TIMEOUT_MIN

\* C7: inputTokens and outputTokens are the running sums of the usage
\* reported by the response.done events so far, and never decrease
RECURSIVE SumUsage(_, _)
SumUsage(log, k) ==
    IF log = <<>> THEN 0 ELSE log[1][k] + SumUsage(Tail(log), k)

C7_UsageAccumulates ==
    /\ [](\A id \in SessionIds :
             /\ inputTokens[id] = SumUsage(usageLog[id], 1)
             /\ outputTokens[id] = SumUsage(usageLog[id], 2))
    /\ [][\A id \in SessionIds :
             /\ inputTokens'[id] >= inputTokens[id]
             /\ outputTokens'[id] >= outputTokens[id]]_vars

\* two response.done events of {input_tokens: 10, output_tokens: 20}
C7_Witness ==
    /\ usageLog[1] = <<<<10, 20, 4, 8>>, <<10, 20, 4, 8>>>>
    /\ inputTokens[1] = 20
    /\ outputTokens[1] = 40

\* C8: a request the authenticator rejected was answered 401 and has no
\* session map entry, idle timer, session record or upstream connection
C8_RejectedAllocatesNothing ==
    \A id \in SessionIds :
        authData[id] = "null" =>
            /\ hs[id] = "401"
            /\ id \notin sessions
            /\ sessionTimeouts[id] = NoTimeout
            /\ hpc[id] = "idle"
            /\ cws[id] = "NONE"
            /\ uws[id] = "NONE" /\ ~wsRef[id] /\ status[id] = "none"

C8_Witness == authData[1] = "null" /\ hs[1] = "401"

\* C9: audio the client sent while the session was connecting was answered
\* with an error event and was not forwarded upstream
C9_EarlyAudioRejected ==
    \A id \in SessionIds :
        earlyAudio[id] > 0 =>
            /\ Count(toClient[id], "error") >= earlyAudio[id]
            /\ Count(sentUp[id], UpMsg("input_audio_buffer.append", 0))
                  <= cmsgs[id] - earlyAudio[id]

\* C10: when the upstream connection failed before it opened, the client
\* got exactly one error event and its socket was closed by the server,
\* and the session was never connected
UpstreamConnectFailed(id) ==
    hpc[id] = "awaitConnect" /\ uws[id] \in {"ERRORED", "CLOSED"}

C10_ConnectFailureReported ==
    \A id \in SessionIds :
        UpstreamConnectFailed(id) =>
            /\ Count(toClient[id], "error") = 1
            /\ cws[id] \in {"CLOSING", "CLOSED"}
            /\ closeReason[id] # "none"

\* the positions of the function_call_output of call c on the upstream socket
ResultIndexes(id, c) ==
    {i \in DOMAIN sentUp[id] : sentUp[id][i] = UpMsg("function_call_output", c)}

\* C11 as stated: the result sent for the unregistered name foo carries
\* {error:"unknown tool: foo"} and is followed by response.create
C11_UnknownToolText ==
    \A id \in SessionIds : \A c \in CallIds :
        callInfo[id][c].name = "foo" =>
            \A i \in ResultIndexes(id, c) :
                /\ callInfo[id][c].output = "{error:\"unknown tool: foo\"}"
                /\ i + 1 \in DOMAIN sentUp[id]
                /\ sentUp[id][i + 1] = UpMsg("response.create", 0)

\* C11: a call of the unregistered name foo never runs a handler; every
\* result sent for it carries {error:"Unknown function: foo"} and has a
\* response.create right behind it
C11_UnknownToolResult ==
    \A id \in SessionIds : \A c \in CallIds :
        callInfo[id][c].name = "foo" =>
            /\ callState[id][c] # "running"
            /\ \A i \in ResultIndexes(id, c) :
                  /\ callInfo[id][c].output = "{error:\"Unknown function: foo\"}"
                  /\ i + 1 \in DOMAIN sentUp[id]
                  /\ sentUp[id][i + 1] = UpMsg("response.create", 0)

C11_Witness ==
    /\ callInfo[1][1].name = "foo"
    /\ callState[1][1] = "completed"
    /\ ResultIndexes(1, 1) # {}

\* C12: the service emits 'disconnected' once when the upstream socket
\* closes, never twice, and the emit starts cleanupSession for a session
\* that is still in the map
C12_DisconnectedOnce ==
    /\ [](\A id \in SessionIds :
             /\ disconnectedEmits[id] <= 1
             /\ uws[id] = "CLOSED" => disconnectedEmits[id] = 1)
    /\ [][\A id \in SessionIds :
             disconnectedEmits'[id] > disconnectedEmits[id] =>
                 \/ id \notin sessions
                 \/ /\ finalizeCalls'[id] = finalizeCalls[id] + 1
                    /\ pendingCleanups'[id] = pendingCleanups[id] + 1
                    /\ ~wsRef'[id]]_vars

\* upstream closed an open connection of a registered session
C12_Witness ==
    /\ uws[1] = "CLOSED"
    /\ disconnectedEmits[1] = 1
    /\ Count(toClient[1], "disconnected") = 1
    /\ finalizeCalls[1] = 1

\* Terminated: the id has left the session map, no idle timer is pending,
\* the upstream connection is neither open nor being opened, and
\* finalizeVoiceSession was called.  A process that exited holds no session
Terminated(id) ==
    \/ crashed
    \/ /\ id \notin sessions
       /\ sessionTimeouts[id].state # "armed"
       /\ uws[id] \notin {"CONNECTING", "OPEN"}
       /\ finalizeCalls[id] > 0

\* C13: once a termination trigger has started cleanupSession for a
\* registered session, the session eventually is Terminated for good (as the
\* claim states it; an idle timer that fires while the handler still awaits
\* createVoiceSessionRecord tears the session down before connect() opens
\* the upstream connection, which then nothing closes)
C13_TriggerLeadsToTerminated ==
    \A id \in SessionIds : (finalizeCalls[id] > 0) ~> []Terminated(id)

\* a is b with some elements left out
RECURSIVE IsSubseq(_, _)
IsSubseq(a, b) ==
    IF a = <<>> THEN TRUE
    ELSE IF b = <<>> THEN FALSE
    ELSE IF a[1] = b[1] THEN IsSubseq(Tail(a), Tail(b))
    ELSE IsSubseq(a, Tail(b))

\* the events on the client socket that only a forwarded upstream event can
\* be (the handler sends a session.created of its own), and the events the
\* service emitted for the messages it received, in the order of receipt
ForwardedEvents(id) ==
    SelectSeq(toClient[id],
              LAMBDA e : e \in {EmittedAs(t) :
                                  t \in PassThroughTypes \ {"session.created"}})
EmittedLog(id) == [i \in DOMAIN upLog[id] |-> EmittedAs(upLog[id][i])]

\* the messages on the upstream socket that only a forwarded client message
\* can be (a tool result also sends response.create), and the client
\* messages in the order of receipt
ClientOnlyTypes ==
    {"input_audio_buffer.append", "input_audio_buffer.commit",
     "input_audio_buffer.clear", "conversation.item.create", "response.cancel"}
ForwardedMsgs(id) ==
    SelectSeq(sentUp[id], LAMBDA m : m.type \in ClientOnlyTypes)
ClientMsgLog(id) ==
    [i \in DOMAIN clientLog[id] |-> UpMsg(clientLog[id][i].type, 0)]

\* C14: in each direction the forwarded messages are, in this order, among
\* the messages received: none overtakes an earlier one, none is repeated
C14_OrderPreserved ==
    \A id \in SessionIds :
        /\ IsSubseq(ForwardedEvents(id), EmittedLog(id))
        /\ IsSubseq(ForwardedMsgs(id), ClientMsgLog(id))

\* two different messages went through in each direction
C14_Witness ==
    /\ ForwardedEvents(1) = <<"response.audio.delta", "response.text.delta">>
    /\ ForwardedMsgs(1) = <<UpMsg("input_audio_buffer.append", 0),
                            UpMsg("input_audio_buffer.commit", 0)>>

\* an Active session: registered, listeners installed, both sockets open
Active(id) ==
    /\ id \in sessions
    /\ ListenersInstalled(id)
    /\ UpstreamOpen(id)
    /\ cws[id] = "OPEN"

\* the client message a ClientMessage step of session id has just handled
Handled(id) == clientLog'[id][Len(clientLog'[id])]

\* a client message was handled by the listener of session id in this step
Handles(id) == Len(clientLog'[id]) = Len(clientLog[id]) + 1

SwitchTypes ==
    {"input_audio_buffer.append", "input_audio_buffer.commit",
     "input_audio_buffer.clear", "conversation.item.create",
     "response.create", "response.cancel"}

\* C15 as stated: each of the six forwarded types sends the upstream message
\* of that same type and nothing else; ping is answered with pong and sends
\* nothing; other types send nothing and the session stays registered and
\* open
C15_RoutedToSameType ==
    [][\A id \in SessionIds :
          (Handles(id) /\ Active(id) /\ Handled(id).type # "malformed") =>
              /\ sentUp'[id] = sentUp[id] \o
                    (IF Handled(id).type \in SwitchTypes
                     THEN <<UpMsg(Handled(id).type, 0)>> ELSE <<>>)
              /\ Handled(id).type = "ping" =>
                    toClient'[id] = Append(toClient[id], "pong")
              /\ id \in sessions' /\ UpstreamOpen(id)' /\ cws'[id] = "OPEN"]_vars

\* what the amended claim expects on the upstream socket for a message
RoutedUp(m) ==
    CASE m.type \in {"input_audio_buffer.commit", "input_audio_buffer.clear",
                     "response.create", "response.cancel"} ->
            <<UpMsg(m.type, 0)>>
      [] m.type = "input_audio_buffer.append" /\ m.payload ->
            <<UpMsg("input_audio_buffer.append", 0)>>
      [] m.type = "conversation.item.create" /\ m.payload ->
            <<UpMsg("conversation.item.create", 0), UpMsg("response.create", 0)>>
      [] OTHER -> <<>>

\* C15: for an Active session a parsed client message sends upstream what
\* its type stands for: commit, clear, response.create and response.cancel
\* the message of that type; append the append message when it has audio;
\* conversation.item.create the text item followed by response.create when
\* it has text; everything else nothing.  ping is answered with pong,
\* conversation.item.truncate with an error event; the session stays
\* registered and open
C15_Routing ==
    [][\A id \in SessionIds :
          (Handles(id) /\ Active(id) /\ Handled(id).type # "malformed") =>
              /\ sentUp'[id] = sentUp[id] \o RoutedUp(Handled(id))
              /\ toClient'[id] =
                    (CASE Handled(id).type = "ping" ->
                             Append(toClient[id], "pong")
                       [] Handled(id).type = "conversation.item.truncate" ->
                             Append(toClient[id], "error")
                       [] OTHER -> toClient[id])
              /\ id \in sessions' /\ UpstreamOpen(id)' /\ cws'[id] = "OPEN"]_vars

\* a text message and a ping went through an Active session
C15_Witness ==
    /\ Active(1)
    /\ Len(clientLog[1]) = 2
    /\ clientLog[1][1] = [type |-> "conversation.item.create", payload |-> TRUE]
    /\ clientLog[1][2].type = "ping"
    /\ sentUp[1] = <<UpMsg("session.update", 0),
                     UpMsg("conversation.item.create", 0),
                     UpMsg("response.create", 0)>>
    /\ toClient[1] = <<"session.created", "pong">>

\* a message the listener cannot process: unparseable, or to be forwarded
\* while the upstream socket is not open
Faulty(id, m) ==
    \/ m.type = "malformed"
    \/ RoutedUp(m) # <<>> /\ ~UpstreamOpen(id)

\* C16: a faulty client message costs the client at most one error event and
\* changes nothing else: nothing goes upstream, the session map, both
\* sockets, the status and the listeners are as before, so later messages
\* are processed
C16_FaultRecoveredLocally ==
    [][\A id \in SessionIds :
          (Handles(id) /\ Faulty(id, Handled(id))) =>
              /\ toClient'[id] \in {toClient[id], Append(toClient[id], "error")}
              /\ sentUp' = sentUp
              /\ sessions' = sessions
              /\ uws' = uws /\ wsRef' = wsRef /\ cws' = cws
              /\ status' = status /\ hpc' = hpc
              /\ pendingCleanups' = pendingCleanups]_vars

\* an unparseable message got one error event, the next message went through
C16_Witness ==
    /\ Active(1)
    /\ Len(clientLog[1]) = 2
    /\ clientLog[1][1].type = "malformed"
    /\ clientLog[1][2] = [type |-> "input_audio_buffer.commit", payload |-> TRUE]
    /\ toClient[1] = <<"session.created", "error">>
    /\ sentUp[1] = <<UpMsg("session.update", 0),
                     UpMsg("input_audio_buffer.commit", 0)>>

\* C17: a repository call that fails leaves the live session on its course:
\* after a failed create the handler goes on to connect and the client hears
\* nothing; after a failed update the response.done event is forwarded and
\* nothing else changes; after a failed finalize the teardown goes on to its
\* resumption; and a teardown that has resumed has removed the id
C17_RepositoryFailureContained ==
    /\ [](\A id \in SessionIds :
             (finalizeCalls[id] > 0 /\ pendingCleanups[id] = 0) =>
                 id \notin sessions)
    /\ [][\A id \in SessionIds :
             repoFailures'[id] > repoFailures[id] =>
                 /\ crashed' = crashed
                 /\ hpc[id] = "awaitRecord" =>
                       /\ hpc'[id] = "awaitConnect"
                       /\ uws'[id] = "CONNECTING" /\ status'[id] = "connecting"
                       /\ toClient' = toClient /\ cws' = cws
                       /\ closeReason' = closeReason /\ sessions' = sessions
                 /\ Len(pendingUpdates'[id]) < Len(pendingUpdates[id]) =>
                       /\ Count(toClient[id], "response.done") > 0
                             \/ cws[id] # "OPEN"
                       /\ toClient' = toClient
                       /\ sentUp' = sentUp /\ sessions' = sessions
                       /\ cws' = cws /\ uws' = uws /\ status' = status
                       /\ closeReason' = closeReason
                 /\ finalizeCalls'[id] > finalizeCalls[id] =>
                       pendingCleanups'[id] = pendingCleanups[id] + 1]_vars

\* create, update and finalize all failed; the session was served and is gone
C17_Witness ==
    /\ repoFailures[1] = 3
    /\ voiceRecord[1] = NoRecord
    /\ toClient[1] = <<"session.created", "response.done">>
    /\ finalizeCalls[1] = 1 /\ pendingCleanups[1] = 0
    /\ 1 \notin sessions

\* C18: once response.done events have reported usage, the session's row
\* holds the sums of the reported input and output audio tokens (stated as
\* the claim states it; the code keeps no audio totals and writes none)
C18_AudioTotalsRecorded ==
    \A id \in SessionIds :
        (ListenersInstalled(id) /\ usageLog[id] # <<>>) =>
            /\ voiceRecord[id].inputAudioTokens = SumUsage(usageLog[id], 3)
            /\ voiceRecord[id].outputAudioTokens = SumUsage(usageLog[id], 4)

\* C19: a session is torn down no later than SESSION_TIMEOUT_MIN after it
\* was created (stated as the claim states it; every client message gives
\* the session another full timeout)
C19_MaxSessionDuration ==
    \A id \in sessions :
        pendingCleanups[id] = 0 => now <= createdAt[id] + SESSION_TIMEOUT_MIN

\* register call c has thrown its ConflictError in this step
ConflictThrown(c) ==
    /\ registers[c].error = ""
    /\ registers'[c].error \in {"Email already exists", "Username already exists"}

Closing(id) == finalizeCalls[id] > 0

\* C21: a client message that arrives once teardown of its session has begun
\* is not forwarded: the step that handles it leaves the upstream socket's
\* outbound messages as they were
C21_NoForwardAfterClosing ==
    [][\A id \in SessionIds :
          Closing(id) /\ Handles(id) => sentUp'[id] = sentUp[id]]_vars

\* C22: once teardown has begun, a tool handler that was running still has its
\* function_call_output sent upstream when it settles, and no tool-call
\* event that arrives afterwards starts a handler
C22_ToolsAcrossClosing ==
    [][\A id \in SessionIds : \A c \in CallIds :
          Closing(id) =>
             /\ callState[id][c] = "running" /\ callState'[id][c] = "completed"
                   => Count(sentUp'[id], UpMsg("function_call_output", c)) = 1
             /\ callState[id][c] = "none" => callState'[id][c] # "running"]_vars


\* an external call of the session is pending: a tool handler that has not
\* settled, or an updateVoiceSessionMetrics call whose update has not ended
Outstanding(id) ==
    \/ \E c \in CallIds : callState[id][c] = "running"
    \/ pendingUpdates[id] # <<>>

\* the upstream message the step handles, when it handles one
Received(id) == upLog'[id][Len(upLog'[id])]
Receives(id) == Len(upLog'[id]) = Len(upLog[id]) + 1

\* C23: while a tool handler or a usage update of a live session is
\* pending, a client message that arrives is forwarded upstream in the step
\* that handles it, and an upstream event that arrives is forwarded to the
\* client in the step that handles it
C23_PumpsDoNotWait ==
    [][\A id \in SessionIds :
          (Outstanding(id) /\ Active(id)) =>
             /\ Handles(id) =>
                   sentUp'[id] = sentUp[id] \o
                       ForwardedUp(Handled(id).type, Handled(id).payload)
             /\ Receives(id) =>
                   toClient'[id] = Append(toClient[id], EmittedAs(Received(id)))]_vars

\* a tool handler is running and a usage update is pending: the
\* response.done that came after the tool call reached the client, and an
\* audio append reached upstream
C23_Witness ==
    /\ callState[1][1] = "running"
    /\ pendingUpdates[1] = <<<<10, 20>>>>
    /\ upLog[1] = <<"response.function_call_arguments.done", "response.done">>
    /\ toClient[1] = <<"session.created",
                       "response.function_call_arguments.done", "response.done">>
    /\ sentUp[1] = <<UpMsg("session.update", 0),
                     UpMsg("input_audio_buffer.append", 0)>>


\* what the isolation claim names of a session: its entry in the session
\* map, its idle timer, its usage counters and its two connections (a
\* process that has exited holds no connection)
SessionView(id) ==
    <<id \in sessions, sessionTimeouts[id], inputTokens[id], outputTokens[id],
      IF crashed THEN "NONE" ELSE cws[id],
      IF crashed THEN "NONE" ELSE uws[id],
      IF crashed THEN FALSE ELSE wsRef[id]>>

\* everything the model keeps of a session
SessionState(id) ==
    <<SessionView(id), hs[id], hpc[id], status[id], heartbeat[id],
      lastActivity[id], closeReason[id], pendingCleanups[id],
      finalizeCalls[id], toClient[id], sentUp[id], callState[id], cmsgs[id],
      umsgs[id], upLog[id], clientLog[id], pendingUpdates[id],
      repoFailures[id], disconnectedEmits[id]>>

\* C24: a step that handles an event of one session leaves every other
\* session's map entry, idle timer, usage counters and connections as they
\* were
C24_SessionsIsolated ==
    [][\A a \in SessionIds : \A b \in SessionIds \ {a} :
          SessionState(a)' # SessionState(a) =>
              SessionView(b)' = SessionView(b)]_vars


\* C25: once the teardown of a session has gone past finalizeVoiceSession and
\* no usage update of the session is pending, the session's row has status
\* 'completed' and the session's accumulated token totals (stated as the
\* claim states it; no row exists, because the create ran with userId
\* undefined)
C25_FinalizedRecordHoldsTotals ==
    \A id \in SessionIds :
        (Closing(id) /\ pendingCleanups[id] = 0 /\ pendingUpdates[id] = <<>>) =>
            /\ voiceRecord[id].status = "completed"
            /\ voiceRecord[id].inputTokens = inputTokens[id]
            /\ voiceRecord[id].outputTokens = outputTokens[id]


\* C26: a session whose client socket closed while the handler was still
\* awaiting the record or the upstream connection (no client listener
\* attached yet) is eventually Terminated for good
C26_EarlyCloseLeadsToTerminated ==
    \A id \in SessionIds :
        (cws[id] = "CLOSED" /\ hpc[id] \in {"awaitRecord", "awaitConnect"})
            ~> []Terminated(id)


\* C27: when the teardown of a session has run to its end (cleanupSession
\* resumed after finalizeVoiceSession and removed the id), no idle timer is
\* pending for the id
C27_NoTimerOutlivesSession ==
    \A id \in SessionIds :
        (Closing(id) /\ pendingCleanups[id] = 0 /\ id \notin sessions) =>
            sessionTimeouts[id].state # "armed"


\* C28: the heartbeat interval is started only by the 'open' of the upstream
\* socket and only when none is active, and no interval is active in a
\* state after disconnect() was called or after the upstream 'close' was
\* handled
C28_HeartbeatOnlyWhileOpen ==
    /\ [](\A id \in SessionIds :
             (Closing(id) \/ uws[id] = "CLOSED") => ~heartbeat[id])
    /\ [][\A id \in SessionIds :
             /\ (heartbeat'[id] /\ ~heartbeat[id]) =>
                    uws[id] = "CONNECTING" /\ uws'[id] = "OPEN"
             /\ (uws[id] # "OPEN" /\ uws'[id] = "OPEN") => ~heartbeat[id]]_vars


\* the step is the lookup of refreshToken call r; Presented is its token
Looks(r) == refreshes[r].pc = "idle" /\ refreshes'[r].pc # "idle"
Presented(r) == refreshes'[r].token
Rejected(r) ==
    /\ refreshes'[r].pc = "done"
    /\ refreshes'[r].error = "Invalid refresh token"
    /\ refreshes'[r].tokens = 0
    /\ users' = users /\ signed' = signed

\* C29 as stated: a refresh token that was revoked by a logout or a
\* changePassword, or replaced by a later login or refresh, is rejected with
\* 'Invalid refresh token' and the stored token stays as it is
C29_StaleTokenRejected ==
    [][\A r \in RefreshCalls :
          (Looks(r) /\ Presented(r) \in stale) => Rejected(r)]_vars

\* C29, amended: refreshToken goes on to issue tokens only for the token
\* that is stored for its user at the lookup; any other token, a revoked or
\* replaced one included unless the same string was issued and stored again,
\* is rejected with 'Invalid refresh token' and the stored token stays as it is
C29_OnlyStoredTokenAccepted ==
    [][\A r \in RefreshCalls :
          Looks(r) =>
             /\ ~Rejected(r) =>
                   /\ users[PayloadId(Presented(r))] # NoUser
                   /\ users[PayloadId(Presented(r))].refreshToken = Presented(r)
                   /\ refreshes'[r].pc = "tokens"
             /\ (Presented(r) \in stale
                   /\ users[PayloadId(Presented(r))].refreshToken # Presented(r))
                   => Rejected(r)]_vars

\* ann's first token was refreshed a second later; presented again, it was
\* rejected and the stored token is still the one the refresh issued
C29_Witness ==
    /\ refreshes[1] = [pc |-> "done", token |-> jwtSign(1) - MaxRegisters,
                       error |-> "", tokens |-> jwtSign(1)]
    /\ refreshes[2] = [pc |-> "done", token |-> jwtSign(1) - MaxRegisters,
                       error |-> "Invalid refresh token", tokens |-> 0]
    /\ clock = 1
    /\ stale = {jwtSign(1) - MaxRegisters}
    /\ users[1].refreshToken = jwtSign(1)


\* what the updateInventory calls that succeeded have added, less what they
\* have removed
RECURSIVE NetChange(_)
NetChange(calls) ==
    IF calls = {} THEN 0
    ELSE LET c == CHOOSE d \in calls : TRUE
             n == Abs(inventory[c].quantity)
         IN  (IF inventory[c].pc = "done" /\ inventory[c].error = ""
              THEN (IF inventory[c].type = "ADD" THEN n ELSE -n)
              ELSE 0) + NetChange(calls \ {c})

\* C30: the quantity is never negative; when no updateInventory call is
\* under way it is the initial quantity plus the amounts added less the
\* amounts removed by the calls that succeeded; and the previousQty of
\* every log row is the quantity the part had just before the row's update
C30_InventoryConsistent ==
    /\ [](quantity >= 0)
    /\ []((\A c \in InventoryCalls : inventory[c].pc \in {"idle", "done"}) =>
             quantity = InitialQuantity + NetChange(InventoryCalls))
    /\ [][Len(inventoryLogs') > Len(inventoryLogs) =>
             inventoryLogs'[Len(inventoryLogs')].previousQty = quantity]_vars

====
